---- MODULE Spec2Model ----
(***************************************************************************)
(* State-machine model of the two components of the repository:           *)
(*   - RegisterMember (src/unnamed/part_000): the registration dialog,    *)
(*     its react-hook-form validation rules and the onSubmit sequence of  *)
(*     external calls;                                                     *)
(*   - VideoFetch (src/unnamed/part_001): the video gallery, its          *)
(*     per-video playback maps and the fullscreen session.                *)
(* Strings that the code inspects character by character (email, name,    *)
(* password) are sequences of one-character strings.                      *)
(***************************************************************************)
EXTENDS Integers, Sequences, FiniteSets, TLC

\* ------------------------------------------------------------------ bounds
\* Number of submissions that may reach onSubmit in one behaviour.
MaxSubmits == 2
\* Longest email typed into the form (the shortest matching email has 5 chars).
MaxEmailLen == 5
\* Longest password typed into the form.
MaxPasswordLen == 7
\* Longest name typed into the form.
MaxNameLen == 1
\* Number of video documents the store may hold.
MaxVideos == 2
\* Longest list of documents a read of the store returns in the fetch model.
MaxDocs == 3
\* Number of grouped results one gallery may report to its parent.
MaxFetches == 2

\* minLength: { value: 6, ... } of the password rule.
MinPasswordLength == 6

VARIABLES
    \* RegisterMember
    isOpen,         \* prop isOpen, owned by the parent (onClose clears it)
    form,           \* the field values held by useForm
    errors,         \* formState.errors: one message per field, "" when none
    formError,      \* useState formError
    isSubmitting,   \* formState.isSubmitting
    subs,           \* the invocations of onSubmit, in order of submission
    \* VideoFetch: the environment
    collection,     \* the documents of the "videos" collection, in read order
    fsSupported,    \* whether the browser offers a fullscreen API at all
    playPermitted,  \* whether the browser's autoplay policy lets every play through
    galleryMounted, \* whether VideoFetch is on the page
    fsElement,      \* document.fullscreenElement: a video id, or 0 for none
    fsRequest,      \* the id whose requestFullscreen() is pending, or 0
    fsExitPending,  \* document.exitFullscreen() is pending
    fsEvent,        \* a fullscreenchange event is queued
    \* VideoFetch: the parent
    loading,        \* the parent's loading flag, set through setLoading
    workouts,       \* the values the parent was given through setWorkouts, in order
    \* VideoFetch: the component
    fetchPc,        \* "mount", "reading", "done", "failed" (the read rejected)
                    \* or "threw" (the read resolved and the grouping threw)
    videos,         \* category -> list of video records
    playing, volume, muted, videoLoaded,   \* id -> value
    currentFullScreenVideo, currentCategory, isFullScreen, isSmallScreen,
    \* VideoFetch: the native media elements
    card,           \* id -> [paused, muted] of the card's <video>
    overlay,        \* [mounted, paused, muted] of the fullscreen <video>
    \* history variable: the handler that ran last, when it is one of those
    \* the properties observe ("HandleSubmit", "ExitControl", "NativeExit",
    \* "Enter", "Next", "Previous"), and "other" after any other step
    lastOp

regVars == <<isOpen, form, errors, formError, isSubmitting, subs>>
envVars == <<collection, fsSupported, playPermitted, galleryMounted>>
browserVars == <<fsElement, fsRequest, fsExitPending, fsEvent>>
parentVars == <<loading, workouts>>
playbackVars == <<playing, volume, muted, videoLoaded>>
sessionVars == <<currentFullScreenVideo, currentCategory, isFullScreen, isSmallScreen>>
elementVars == <<card, overlay>>
videoVars == <<envVars, browserVars, parentVars, fetchPc, videos, playbackVars,
               sessionVars, elementVars>>
vars == <<regVars, videoVars, lastOp>>

Null == "<null>"

\* ------------------------------------------------------- RegisterMember

Chars == {"a", "@", ".", " "}

SeqsUpTo(S, n) == UNION {[1..k -> S] : k \in 0..n}

Names == SeqsUpTo({"a"}, MaxNameLen)
Emails == SeqsUpTo(Chars, MaxEmailLen)
Passwords == SeqsUpTo({"p"}, MaxPasswordLen)
MembershipOptions == {"", "Subadmin", "Basic", "Premium", "VIP"}

Forms == [name : Names, email : Emails, password : Passwords,
          membership : MembershipOptions,
          status : {"Active"}, statusColor : {"text-green-500"}]

DefaultValues ==
    [name |-> <<>>, email |-> <<>>, password |-> <<>>,
     membership |-> "Subadmin",
     status |-> "Active", statusColor |-> "text-green-500"]

NoErrors == [name |-> "", email |-> "", password |-> "", membership |-> ""]

\* \S of the email pattern: any character that is not white space.
NonSpace(c) == c # " "

\* The pattern /^\S+@\S+\.\S+$/ as a backtracking matcher: tok 1, 3 and 5 are
\* \S+, tok 2 is "@" and tok 4 is "."; started says whether the current \S+
\* has consumed a character already.
RECURSIVE MatchFrom(_, _, _, _)
MatchFrom(s, pos, tok, started) ==
    IF tok \in {2, 4}
    THEN /\ pos <= Len(s)
         /\ s[pos] = (IF tok = 2 THEN "@" ELSE ".")
         /\ MatchFrom(s, pos + 1, tok + 1, FALSE)
    ELSE \/ /\ pos <= Len(s)
            /\ NonSpace(s[pos])
            /\ MatchFrom(s, pos + 1, tok, TRUE)
         \/ /\ started
            /\ IF tok = 5 THEN pos = Len(s) + 1
                          ELSE MatchFrom(s, pos, tok + 1, FALSE)

EmailPatternNoDot(s) ==
    \E i \in 1..Len(s) :
        /\ s[i] = "@" /\ 1 < i /\ i < Len(s)
        /\ \A k \in 1..Len(s) : NonSpace(s[k])

EmailPattern(s) == MatchFrom(s, 1, 1, FALSE)

ValidateNameLax(v) == ""

ValidateName(v) == IF v = <<>> THEN "Name is required" ELSE ""

ValidateEmail(v) ==
    IF v = <<>> THEN "Email is required"
    ELSE IF ~EmailPattern(v) THEN "Invalid email format"
    ELSE ""

ValidatePasswordOffByOne(v) ==
    IF v = <<>> THEN "Password is required"
    ELSE IF Len(v) < MinPasswordLength - 1
         THEN "Password must be at least 6 characters"
    ELSE ""

ValidatePassword(v) ==
    IF v = <<>> THEN "Password is required"
    ELSE IF Len(v) < MinPasswordLength
         THEN "Password must be at least 6 characters"
    ELSE ""

ValidateMembership(v) == IF v = "" THEN "Membership type is required" ELSE ""

\* The rules given to register(), applied to every field by handleSubmit.
Validate(data) ==
    [name |-> ValidateName(data.name),
     email |-> ValidateEmail(data.email),
     password |-> ValidatePassword(data.password),
     membership |-> ValidateMembership(data.membership)]

HasErrors(errs) == errs # NoErrors

\* The rejections the identity service and the document store can answer with:
\* an error is {code, message}; message "" stands for an absent message.
AuthErrors ==
    {[code |-> "auth/email-already-in-use", message |-> "svc"],
     [code |-> "auth/invalid-email", message |-> "svc"],
     [code |-> "auth/weak-password", message |-> "svc"],
     [code |-> "other", message |-> "svc"],
     [code |-> "other", message |-> ""]}

StoreErrors ==
    {[code |-> "permission-denied", message |-> "svc"],
     [code |-> "unavailable", message |-> "svc"],
     [code |-> "other", message |-> "svc"],
     [code |-> "other", message |-> ""]}

NoError == [code |-> "", message |-> ""]

ErrorMessageRaw(error) ==
    IF error.message # "" THEN error.message ELSE "Failed to register member."

\* The catch block's choice of message.
ErrorMessage(error) ==
    IF error.code = "auth/email-already-in-use" THEN "Email already in use."
    ELSE IF error.code = "auth/invalid-email" THEN "Invalid email format."
    ELSE IF error.code = "auth/weak-password"
         THEN "Password must be at least 6 characters."
    ELSE IF error.code = "permission-denied"
         THEN "Permission denied: Unable to save data."
    ELSE IF error.code = "unavailable" THEN "Firestore service is unavailable."
    ELSE IF error.message # "" THEN error.message
    ELSE "Failed to register member."

\* The opaque identity reference the identity service returns for the i-th
\* account it is asked to create: distinct calls get distinct references.
NewUid(i) == 100 + i

CreateUserCall(data) ==
    [op |-> "createUserWithEmailAndPassword", userId |-> 0]

AddMemberCallNoUid(data, uid) == [op |-> "addDoc:members", userId |-> 0]

\* addDoc(collection(db, "members"), {...data, userId: user.uid, ...})
AddMemberCall(data, uid) == [op |-> "addDoc:members", userId |-> uid]

AddNotificationCall(data) == [op |-> "addDoc:notifications", userId |-> 0]

\* One invocation of onSubmit: where it stands (pc), the data it was given,
\* the external calls it has issued, and what it has done to the dialog.
NewSubmission(data) ==
    [pc |-> "auth", data |-> data, calls |-> <<CreateUserCall(data)>>,
     uid |-> 0, failedAt |-> "", error |-> NoError, shown |-> Null,
     nSuccess |-> 0, nErrorToast |-> 0, nReset |-> 0, nClose |-> 0]

InFlight(i) == subs[i].pc \in {"auth", "profile", "notif"}

\* <form onSubmit={handleSubmit(onSubmit)}> through the Register button, which
\* is disabled while isSubmitting: the rules run first, and onSubmit (with its
\* setFormError(null) and the identity-creation call) only when none fails.
HandleSubmit ==
    /\ isOpen
    /\ ~isSubmitting
    /\ LET errs == Validate(form) IN
       IF HasErrors(errs)
       THEN /\ errors' = errs
            /\ UNCHANGED <<isOpen, form, formError, isSubmitting, subs>>
       ELSE /\ Len(subs) < MaxSubmits
            /\ errors' = NoErrors
            /\ formError' = Null
            /\ isSubmitting' = TRUE
            /\ subs' = Append(subs, NewSubmission(form))
            /\ UNCHANGED <<isOpen, form>>
    /\ lastOp' = "HandleSubmit"
    /\ UNCHANGED videoVars

\* createUserWithEmailAndPassword resolved: the profile write is issued.
AuthResolve(i) ==
    /\ subs[i].pc = "auth"
    /\ subs' = [subs EXCEPT ![i].pc = "profile",
                            ![i].uid = NewUid(i),
                            ![i].calls = Append(@, AddMemberCall(subs[i].data, NewUid(i)))]
    /\ lastOp' = "other"
    /\ UNCHANGED <<isOpen, form, errors, formError, isSubmitting, videoVars>>

\* The profile write resolved: the notification write is issued.
ProfileResolve(i) ==
    /\ subs[i].pc = "profile"
    /\ subs' = [subs EXCEPT ![i].pc = "notif",
                            ![i].calls = Append(@, AddNotificationCall(subs[i].data))]
    /\ lastOp' = "other"
    /\ UNCHANGED <<isOpen, form, errors, formError, isSubmitting, videoVars>>

\* NotifResolve without its reset() and with the toast fired twice.
NotifResolveNoReset(i) ==
    /\ subs[i].pc = "notif"
    /\ subs' = [subs EXCEPT ![i].pc = "done",
                            ![i].nSuccess = @ + 2,
                            ![i].nClose = @ + 1]
    /\ isOpen' = FALSE
    /\ isSubmitting' = FALSE
    /\ lastOp' = "other"
    /\ UNCHANGED <<form, errors, formError, videoVars>>

\* The notification write resolved: toast.success, reset(), onClose(); then
\* handleSubmit clears isSubmitting.
NotifResolve(i) ==
    /\ subs[i].pc = "notif"
    /\ subs' = [subs EXCEPT ![i].pc = "done",
                            ![i].nSuccess = @ + 1,
                            ![i].nReset = @ + 1,
                            ![i].nClose = @ + 1]
    /\ form' = DefaultValues
    /\ errors' = NoErrors
    /\ isOpen' = FALSE
    /\ isSubmitting' = FALSE
    /\ lastOp' = "other"
    /\ UNCHANGED <<formError, videoVars>>

\* Catch that leaves isSubmitting set and closes the dialog.
CatchKeepsSubmitting(i, error) ==
    /\ subs' = [subs EXCEPT ![i].pc = "failed",
                            ![i].failedAt = subs[i].pc,
                            ![i].error = error,
                            ![i].shown = ErrorMessage(error),
                            ![i].nErrorToast = @ + 1,
                            ![i].nClose = @ + 1]
    /\ formError' = ErrorMessage(error)
    /\ isOpen' = FALSE
    /\ UNCHANGED <<isSubmitting, form, errors, videoVars>>

\* The catch block of onSubmit, entered from the await that rejected; then
\* handleSubmit clears isSubmitting.
Catch(i, error) ==
    /\ subs' = [subs EXCEPT ![i].pc = "failed",
                            ![i].failedAt = subs[i].pc,
                            ![i].error = error,
                            ![i].shown = ErrorMessage(error),
                            ![i].nErrorToast = @ + 1]
    /\ formError' = ErrorMessage(error)
    /\ isSubmitting' = FALSE
    /\ UNCHANGED <<isOpen, form, errors, videoVars>>

AuthReject(i) ==
    /\ subs[i].pc = "auth"
    /\ \E error \in AuthErrors : Catch(i, error)
    /\ lastOp' = "other"

ProfileReject(i) ==
    /\ subs[i].pc = "profile"
    /\ \E error \in StoreErrors : Catch(i, error)
    /\ lastOp' = "other"

NotifReject(i) ==
    /\ subs[i].pc = "notif"
    /\ \E error \in StoreErrors : Catch(i, error)
    /\ lastOp' = "other"

\* onClose(); reset(); setFormError(null): reset() restores the default
\* values and the form state, isSubmitting included.
CloseAndReset ==
    /\ isOpen' = FALSE
    /\ form' = DefaultValues
    /\ errors' = NoErrors
    /\ isSubmitting' = FALSE
    /\ formError' = Null
    /\ UNCHANGED <<subs, videoVars>>

\* The close-X button: rendered whenever the dialog is open, never disabled.
CloseX ==
    /\ isOpen
    /\ CloseAndReset
    /\ lastOp' = "other"

\* The Cancel button: disabled={isSubmitting}.
Cancel ==
    /\ isOpen
    /\ ~isSubmitting
    /\ CloseAndReset
    /\ lastOp' = "other"

\* The parent opens the dialog again (isOpen becomes true).
Reopen ==
    /\ ~isOpen
    /\ isOpen' = TRUE
    /\ lastOp' = "other"
    /\ UNCHANGED <<form, errors, formError, isSubmitting, subs, videoVars>>

\* The forms the user types in the flow specification: a valid one, and one
\* whose name is left empty (the default values are the all-empty form).
ValidForm ==
    [DefaultValues EXCEPT !.name = <<"a">>,
                          !.email = <<"a", "@", "a", ".", "a">>,
                          !.password = [k \in 1..MinPasswordLength |-> "p"]]

SampleForms == {ValidForm, [ValidForm EXCEPT !.name = <<>>]}

\* The user edits the fields of the open dialog (any number of keystrokes).
TypeField ==
    /\ isOpen
    /\ \E f \in SampleForms : form' = f
    /\ lastOp' = "other"
    /\ UNCHANGED <<isOpen, errors, formError, isSubmitting, subs, videoVars>>

Settle ==
    \E i \in 1..Len(subs) :
        \/ AuthResolve(i)
        \/ AuthReject(i)
        \/ ProfileResolve(i)
        \/ ProfileReject(i)
        \/ NotifResolve(i)
        \/ NotifReject(i)

\* ----------------------------------------------------------- VideoFetch

VideoIds == 1..MaxVideos
\* The category field of a stored document; "" stands for a missing field.
DocCategories == {"", "yoga"}

\* A read returns one record per document; the records of SpecVideo's store
\* are the ids 1..MaxVideos in order, each with any category.
Collections ==
    {c \in [1..MaxVideos -> [id : VideoIds, category : DocCategories]] :
        \A k \in 1..MaxVideos : c[k].id = k}

EmptyMap == [x \in {} |-> 0]

NoVideo == [id |-> 0, category |-> Null]

CategoryOf(video) ==
    IF video.category # "" THEN video.category ELSE "uncategorized"

\* Property names an object literal inherits from Object.prototype (two of
\* them): acc[name] is a function before any record was stored under name.
ObjectPrototypeKeys == {"constructor", "toString"}

\* fetchedVideos.reduce((acc, video) => { ... acc[category].push(video) }, {})
\* acc starts as the object literal {}: for a category that names an
\* inherited property, !acc[category] is false and acc[category].push is not
\* a function, so the reduce throws a TypeError. The result says whether it
\* threw, and holds the groups otherwise.
RECURSIVE GroupedVideos(_, _, _)
GroupedVideos(list, k, acc) ==
    IF k > Len(list) THEN [thrown |-> FALSE, value |-> acc]
    ELSE LET category == CategoryOf(list[k])
             acc1 == IF category \in DOMAIN acc THEN acc
                     ELSE acc @@ (category :> <<>>)
         IN IF category \notin DOMAIN acc /\ category \in ObjectPrototypeKeys
            THEN [thrown |-> TRUE, value |-> acc]
            ELSE GroupedVideos(list, k + 1,
                               [acc1 EXCEPT ![category] = Append(@, list[k])])

FetchedIds(list) == {list[k].id : k \in 1..Len(list)}

\* The ids of the records listed under the categories of videos.
ListedIds ==
    UNION {{videos[c][k].id : k \in 1..Len(videos[c])} : c \in DOMAIN videos}

SessionActive == currentFullScreenVideo # NoVideo

NoOverlay == [mounted |-> FALSE, paused |-> TRUE, muted |-> TRUE]

\* videoRefs.current[id]: the fullscreen <video> registers itself under the
\* active id after the cards have, so it is the element the id addresses
\* while the session lasts; any other id addresses its card.
Ref(id) ==
    IF overlay.mounted /\ currentFullScreenVideo.id = id THEN "overlay"
    ELSE IF id \in DOMAIN card THEN "card"
    ELSE "none"

Elements == [card |-> card, overlay |-> overlay]

\* element.pause()
ElPause(E, id) ==
    IF Ref(id) = "overlay" THEN [E EXCEPT !.overlay.paused = TRUE]
    ELSE IF Ref(id) = "card" THEN [E EXCEPT !.card[id].paused = TRUE]
    ELSE E

\* What a play() call or an autoplay may come to: the browser starts playback
\* (TRUE) or, when its policy does not permit every play, may reject it (FALSE).
PlayOutcomes == IF playPermitted THEN {TRUE} ELSE BOOLEAN

\* element.play(): the browser starts playback (ok) or rejects the attempt,
\* which the code catches and logs.
ElPlay(E, id, ok) ==
    IF ~ok THEN E
    ELSE IF Ref(id) = "overlay" THEN [E EXCEPT !.overlay.paused = FALSE]
    ELSE IF Ref(id) = "card" THEN [E EXCEPT !.card[id].paused = FALSE]
    ELSE E

\* element.muted = m
ElSetMuted(E, id, m) ==
    IF Ref(id) = "overlay" THEN [E EXCEPT !.overlay.muted = m]
    ELSE IF Ref(id) = "card" THEN [E EXCEPT !.card[id].muted = m]
    ELSE E

\* The commit that follows a handler: a muted prop whose value changed is
\* written to its element; the fullscreen <video> is mounted (autoPlay) when
\* a session starts, removed when it ends, and loads and autoplays the new
\* source when the active id changes. auto says whether the browser lets the
\* autoplay start.
Commit(E, muted1, session1, auto) ==
    [card |->
        [id \in DOMAIN E.card |->
            IF id \in DOMAIN muted1 /\ id \in DOMAIN muted
               /\ muted1[id] # muted[id]
            THEN [E.card[id] EXCEPT !.muted = muted1[id]]
            ELSE E.card[id]],
     overlay |->
        IF session1 = NoVideo THEN NoOverlay
        ELSE IF ~E.overlay.mounted
        THEN [mounted |-> TRUE, paused |-> ~auto, muted |-> muted1[session1.id]]
        ELSE [mounted |-> TRUE,
              paused |-> IF session1.id # currentFullScreenVideo.id
                         THEN ~auto ELSE E.overlay.paused,
              muted |-> IF muted1[session1.id] # muted[currentFullScreenVideo.id]
                        THEN muted1[session1.id] ELSE E.overlay.muted]]

\* The state of the component as constructed by its useState calls.
VideoConstructed ==
    /\ fsElement = 0 /\ fsRequest = 0 /\ fsExitPending = FALSE /\ fsEvent = FALSE
    /\ loading = FALSE /\ workouts = <<>>
    /\ fetchPc = "mount"
    /\ videos = EmptyMap
    /\ playing = EmptyMap /\ volume = EmptyMap /\ muted = EmptyMap
    /\ videoLoaded = EmptyMap
    /\ currentFullScreenVideo = NoVideo /\ currentCategory = Null
    /\ isFullScreen = FALSE /\ isSmallScreen = FALSE
    /\ card = EmptyMap /\ overlay = NoOverlay

\* The mount effect: setLoading(true), then the collection read is issued.
\* While loading the grid shows placeholders, so no card <video> is mounted.
FetchStart ==
    /\ galleryMounted
    /\ fetchPc = "mount"
    /\ fetchPc' = "reading"
    /\ loading' = TRUE
    /\ card' = EmptyMap
    /\ lastOp' = "other"
    /\ UNCHANGED <<regVars, envVars, browserVars, workouts, videos,
                   playbackVars, sessionVars, overlay>>

\* The lookup of the fullscreen render and of Next/Previous,
\* vs[category].find((v) => v.id === id): it yields a record only when vs has
\* the category and its list holds the id.
LookupDefined(vs, category, id) ==
    /\ category \in DOMAIN vs
    /\ \E k \in 1..Len(vs[category]) : vs[category][k].id = id

\* The render of the component with the video map vs: the fullscreen block is
\* rendered while a session is active, and reading .videoUrl of a lookup that
\* found nothing throws a TypeError.
RenderThrows(vs) ==
    /\ SessionActive
    /\ ~LookupDefined(vs, currentCategory, currentFullScreenVideo.id)

\* The read resolved. The continuation groups the records, reports them and
\* initialises the playback maps; when the grouping throws, the catch block
\* logs the error instead. Either way setLoading(false) runs in the finally
\* block and the cards mount. Once the component has left the page React
\* drops its state updates; the parent's callbacks are called all the same.
\* A render that throws has no error boundary above it in this component:
\* React removes the tree, the new state being the last one it held.
FetchSucceed ==
    /\ fetchPc = "reading"
    /\ LET fetchedVideos == collection
           groupedVideos == GroupedVideos(fetchedVideos, 1, EmptyMap)
           ids == FetchedIds(fetchedVideos)
       IN /\ IF groupedVideos.thrown
             THEN /\ fetchPc' = "threw"
                  /\ card' = IF galleryMounted
                             THEN [id \in ListedIds |->
                                      [paused |-> TRUE, muted |-> muted[id]]]
                             ELSE card
                  /\ UNCHANGED <<workouts, videos, playbackVars, overlay>>
             ELSE /\ fetchPc' = "done"
                  /\ workouts' = Append(workouts, groupedVideos.value)
                  /\ IF galleryMounted
                     THEN /\ videos' = groupedVideos.value
                          /\ playing' = [id \in ids |-> FALSE]
                          /\ volume' = [id \in ids |-> 7]
                          /\ muted' = [id \in ids |-> TRUE]
                          /\ videoLoaded' = [id \in ids |-> FALSE]
                          /\ card' = IF RenderThrows(groupedVideos.value)
                                     THEN EmptyMap
                                     ELSE [id \in ids |->
                                             [paused |-> TRUE, muted |-> TRUE]]
                          /\ overlay' = IF RenderThrows(groupedVideos.value)
                                        THEN NoOverlay
                                        ELSE IF overlay.mounted
                                        THEN [overlay EXCEPT !.muted = TRUE]
                                        ELSE overlay
                     ELSE UNCHANGED <<videos, playbackVars, elementVars>>
          /\ galleryMounted' =
               (galleryMounted /\ (groupedVideos.thrown
                                     \/ ~RenderThrows(groupedVideos.value)))
    /\ loading' = FALSE
    /\ lastOp' = "other"
    /\ UNCHANGED <<regVars, collection, fsSupported, playPermitted, browserVars,
                   sessionVars>>

\* The read rejected: the error is logged, and setLoading(false) runs.
FetchFail ==
    /\ fetchPc = "reading"
    /\ loading' = FALSE
    /\ fetchPc' = "failed"
    /\ card' = IF galleryMounted
               THEN [id \in ListedIds |-> [paused |-> TRUE, muted |-> muted[id]]]
               ELSE card
    /\ lastOp' = "other"
    /\ UNCHANGED <<regVars, envVars, browserVars, workouts, videos,
                   playbackVars, sessionVars, overlay>>

\* The effect runs again because the parent handed in a new setWorkouts or
\* setLoading; the earlier run has settled.
Refetch ==
    /\ galleryMounted
    /\ fetchPc \in {"done", "failed", "threw"}
    /\ Len(workouts) < MaxFetches
    /\ fetchPc' = "reading"
    /\ loading' = TRUE
    /\ card' = EmptyMap
    /\ lastOp' = "other"
    /\ UNCHANGED <<regVars, envVars, browserVars, workouts, videos,
                   playbackVars, sessionVars, overlay>>

\* Mutant: leaving the page abandons a read that is in flight.
UnmountCancelsRead ==
    /\ galleryMounted
    /\ galleryMounted' = FALSE
    /\ fetchPc' = IF fetchPc = "reading" THEN "failed" ELSE fetchPc
    /\ card' = EmptyMap
    /\ overlay' = NoOverlay
    /\ lastOp' = "other"
    /\ UNCHANGED <<regVars, collection, fsSupported, playPermitted, browserVars,
                   parentVars, videos, playbackVars, sessionVars>>

\* The gallery leaves the page: its elements are removed.
Unmount ==
    /\ galleryMounted
    /\ galleryMounted' = FALSE
    /\ card' = EmptyMap
    /\ overlay' = NoOverlay
    /\ lastOp' = "other"
    /\ UNCHANGED <<regVars, collection, fsSupported, playPermitted, browserVars,
                   parentVars, fetchPc, videos, playbackVars, sessionVars>>

\* onLoadedData of a card's <video>.
HandleVideoLoaded(videoId) ==
    /\ videoId \in DOMAIN card
    /\ videoLoaded' = [videoLoaded EXCEPT ![videoId] = TRUE]
    /\ lastOp' = "other"
    /\ UNCHANGED <<regVars, envVars, browserVars, parentVars, fetchPc, videos,
                   playing, volume, muted, sessionVars, elementVars>>

\* The play/pause toggle, as a handler body: what it writes to the elements
\* E and to the playing map.
PlayPauseElements(E, videoId, ok) ==
    IF playing[videoId] THEN ElPause(E, videoId) ELSE ElPlay(E, videoId, ok)

HandlePlayPause(videoId) ==
    /\ \/ videoId \in DOMAIN card
       \/ overlay.mounted /\ currentFullScreenVideo.id = videoId
    /\ Ref(videoId) # "none"
    /\ \E ok \in PlayOutcomes :
        LET E == PlayPauseElements(Elements, videoId, ok) IN
        /\ card' = E.card
        /\ overlay' = E.overlay
    /\ playing' = [playing EXCEPT ![videoId] = ~playing[videoId]]
    /\ lastOp' = "other"
    /\ UNCHANGED <<regVars, envVars, browserVars, parentVars, fetchPc, videos,
                   volume, muted, videoLoaded, sessionVars>>

\* A click on a card's placeholder or <video>.
HandleVideoClick(videoId) ==
    /\ videoId \in DOMAIN card
    /\ Ref(videoId) # "none"
    /\ \E ok \in PlayOutcomes :
        LET E == IF ~videoLoaded[videoId]
                 THEN ElPlay(ElSetMuted(Elements, videoId, TRUE), videoId, ok)
                 ELSE PlayPauseElements(Elements, videoId, ok)
        IN /\ card' = E.card
           /\ overlay' = E.overlay
    /\ playing' = [playing EXCEPT ![videoId] =
                      IF ~videoLoaded[videoId] THEN TRUE ELSE ~playing[videoId]]
    /\ lastOp' = "other"
    /\ UNCHANGED <<regVars, envVars, browserVars, parentVars, fetchPc, videos,
                   volume, muted, videoLoaded, sessionVars>>

\* Mutant: entering fullscreen also marks every other video as not playing.
HandleFullScreenPausesOthers(videoId, category) ==
    /\ ~isFullScreen
    /\ videoId \in DOMAIN card
    /\ category \in DOMAIN videos
    /\ \E k \in 1..Len(videos[category]) : videos[category][k].id = videoId
    /\ Ref(videoId) # "none"
    /\ currentFullScreenVideo' = [id |-> videoId, category |-> category]
    /\ currentCategory' = category
    /\ isFullScreen' = TRUE
    /\ isSmallScreen' = FALSE
    /\ fsRequest' = IF fsSupported THEN videoId ELSE fsRequest
    /\ playing' = [id \in DOMAIN playing |-> id = videoId]
    /\ muted' = [muted EXCEPT ![videoId] = FALSE]
    /\ \E ok \in PlayOutcomes, auto \in PlayOutcomes :
        LET E == Commit(ElPlay(ElSetMuted(Elements, videoId, FALSE), videoId, ok),
                        muted', currentFullScreenVideo', auto)
        IN /\ card' = E.card
           /\ overlay' = E.overlay
    /\ lastOp' = "Enter"
    /\ UNCHANGED <<regVars, envVars, fsElement, fsExitPending, fsEvent,
                   parentVars, fetchPc, videos, volume, videoLoaded>>

\* A card's fullscreen control while isFullScreen is false.
HandleFullScreen(videoId, category) ==
    /\ ~isFullScreen
    /\ videoId \in DOMAIN card
    /\ category \in DOMAIN videos
    /\ \E k \in 1..Len(videos[category]) : videos[category][k].id = videoId
    /\ Ref(videoId) # "none"
    /\ currentFullScreenVideo' = [id |-> videoId, category |-> category]
    /\ currentCategory' = category
    /\ isFullScreen' = TRUE
    /\ isSmallScreen' = FALSE
    /\ fsRequest' = IF fsSupported THEN videoId ELSE fsRequest
    /\ playing' = [playing EXCEPT ![videoId] = TRUE]
    /\ muted' = [muted EXCEPT ![videoId] = FALSE]
    /\ \E ok \in PlayOutcomes, auto \in PlayOutcomes :
        LET E == Commit(ElPlay(ElSetMuted(Elements, videoId, FALSE), videoId, ok),
                        muted', currentFullScreenVideo', auto)
        IN /\ card' = E.card
           /\ overlay' = E.overlay
    /\ lastOp' = "Enter"
    /\ UNCHANGED <<regVars, envVars, fsElement, fsExitPending, fsEvent,
                   parentVars, fetchPc, videos, volume, videoLoaded>>

\* The elements after a handler that wrote nothing to them and left the muted
\* map alone: only the fullscreen <video> follows the session.
CommitSession(session1) == Commit(Elements, muted, session1, TRUE)

\* Mutant: the exit control without its setCurrentCategory(null).
HandleExitFullScreenKeepsCategory ==
    /\ \/ isFullScreen /\ DOMAIN card # {}
       \/ overlay.mounted
    /\ fsExitPending' = (fsExitPending \/ (fsSupported /\ fsElement # 0))
    /\ currentFullScreenVideo' = NoVideo
    /\ currentCategory' = currentCategory
    /\ isFullScreen' = FALSE
    /\ isSmallScreen' = FALSE
    /\ card' = CommitSession(currentFullScreenVideo').card
    /\ overlay' = CommitSession(currentFullScreenVideo').overlay
    /\ lastOp' = "ExitControl"
    /\ UNCHANGED <<regVars, envVars, fsElement, fsRequest, fsEvent, parentVars,
                   fetchPc, videos, playbackVars>>

\* The exit control: a card's fullscreen control while isFullScreen is true,
\* or the overlay's exit button. document.exitFullscreen() is asked for when
\* the browser has it; it is rejected when nothing is fullscreen.
HandleExitFullScreen ==
    /\ \/ isFullScreen /\ DOMAIN card # {}
       \/ overlay.mounted
    /\ fsExitPending' = (fsExitPending \/ (fsSupported /\ fsElement # 0))
    /\ currentFullScreenVideo' = NoVideo
    /\ currentCategory' = Null
    /\ isFullScreen' = FALSE
    /\ isSmallScreen' = FALSE
    /\ card' = CommitSession(currentFullScreenVideo').card
    /\ overlay' = CommitSession(currentFullScreenVideo').overlay
    /\ lastOp' = "ExitControl"
    /\ UNCHANGED <<regVars, envVars, fsElement, fsRequest, fsEvent, parentVars,
                   fetchPc, videos, playbackVars>>

\* The overlay's compact-mode button.
HandleToggleSmallScreen ==
    /\ overlay.mounted
    /\ isSmallScreen' = ~isSmallScreen
    /\ lastOp' = "other"
    /\ UNCHANGED <<regVars, envVars, browserVars, parentVars, fetchPc, videos,
                   playbackVars, currentFullScreenVideo, currentCategory,
                   isFullScreen, elementVars>>

\* The listener without its setIsSmallScreen(false).
HandleFullscreenChangeKeepsCompact ==
    /\ galleryMounted
    /\ fsEvent
    /\ fsEvent' = FALSE
    /\ IF fsElement = 0 /\ SessionActive
       THEN /\ currentFullScreenVideo' = NoVideo
            /\ currentCategory' = Null
            /\ isFullScreen' = FALSE
            /\ isSmallScreen' = isSmallScreen
            /\ card' = CommitSession(currentFullScreenVideo').card
            /\ overlay' = CommitSession(currentFullScreenVideo').overlay
            /\ lastOp' = "NativeExit"
       ELSE /\ UNCHANGED <<sessionVars, elementVars>>
            /\ lastOp' = "other"
    /\ UNCHANGED <<regVars, envVars, fsElement, fsRequest, fsExitPending,
                   parentVars, fetchPc, videos, playbackVars>>

\* The listener of fullscreenchange (and its prefixed variants); the effect's
\* cleanup removes it when the component leaves the page.
HandleFullscreenChange ==
    /\ galleryMounted
    /\ fsEvent
    /\ fsEvent' = FALSE
    /\ IF fsElement = 0 /\ SessionActive
       THEN /\ currentFullScreenVideo' = NoVideo
            /\ currentCategory' = Null
            /\ isFullScreen' = FALSE
            /\ isSmallScreen' = FALSE
            /\ card' = CommitSession(currentFullScreenVideo').card
            /\ overlay' = CommitSession(currentFullScreenVideo').overlay
            /\ lastOp' = "NativeExit"
       ELSE /\ UNCHANGED <<sessionVars, elementVars>>
            /\ lastOp' = "other"
    /\ UNCHANGED <<regVars, envVars, fsElement, fsRequest, fsExitPending,
                   parentVars, fetchPc, videos, playbackVars>>

\* The values the volume slider (0 to 1 in steps of 0.1) hands to
\* handleVolumeChange, in tenths; parseFloat turns "0" into 0 and "0.7"
\* into 0.7.
SliderValues == {0, 7}

\* The muted property of the element that videoRefs.current[id] addresses.
AddressedMuted(id) ==
    IF Ref(id) = "overlay" THEN overlay.muted ELSE card[id].muted

\* The mute button of a card or of the overlay. The updater writes the
\* negated flag to the element the handler looked up and to the muted map.
\* Mutant: unmuting also restores the initial volume.
HandleMuteToggleRestoresVolume(videoId) ==
    /\ Ref(videoId) # "none"
    /\ muted' = [muted EXCEPT ![videoId] = ~muted[videoId]]
    /\ volume' = IF muted[videoId] THEN [volume EXCEPT ![videoId] = 7]
                 ELSE volume
    /\ LET E == Commit(ElSetMuted(Elements, videoId, ~muted[videoId]),
                       muted', currentFullScreenVideo, TRUE)
       IN /\ card' = E.card
          /\ overlay' = E.overlay
    /\ lastOp' = "other"
    /\ UNCHANGED <<regVars, envVars, browserVars, parentVars, fetchPc, videos,
                   playing, videoLoaded, sessionVars>>

HandleMuteToggle(videoId) ==
    /\ Ref(videoId) # "none"
    /\ muted' = [muted EXCEPT ![videoId] = ~muted[videoId]]
    /\ LET E == Commit(ElSetMuted(Elements, videoId, ~muted[videoId]),
                       muted', currentFullScreenVideo, TRUE)
       IN /\ card' = E.card
          /\ overlay' = E.overlay
    /\ lastOp' = "other"
    /\ UNCHANGED <<regVars, envVars, browserVars, parentVars, fetchPc, videos,
                   playing, volume, videoLoaded, sessionVars>>

\* Mutant: the volume is stored but a positive value does not unmute.
HandleVolumeChangeNoUnmute(videoId, value) ==
    /\ Ref(videoId) # "none"
    /\ ~muted[videoId]
    /\ volume' = [volume EXCEPT ![videoId] = value]
    /\ lastOp' = IF value > 0 /\ AddressedMuted(videoId)
                 THEN "VolumeUnmute" ELSE "other"
    /\ UNCHANGED <<regVars, envVars, browserVars, parentVars, fetchPc, videos,
                   playing, muted, videoLoaded, sessionVars, elementVars>>

\* The volume slider of a card or of the overlay, which is rendered only
\* while muted[videoId] is false. lastOp records the case in which the
\* element itself was muted when a positive value arrived.
HandleVolumeChange(videoId, value) ==
    /\ Ref(videoId) # "none"
    /\ ~muted[videoId]
    /\ volume' = [volume EXCEPT ![videoId] = value]
    /\ muted' = IF value > 0 THEN [muted EXCEPT ![videoId] = FALSE] ELSE muted
    /\ LET E0 == IF value > 0 THEN ElSetMuted(Elements, videoId, FALSE)
                 ELSE Elements
           E == Commit(E0, muted', currentFullScreenVideo, TRUE)
       IN /\ card' = E.card
          /\ overlay' = E.overlay
    /\ lastOp' = IF value > 0 /\ AddressedMuted(videoId)
                 THEN "VolumeUnmute" ELSE "other"
    /\ UNCHANGED <<regVars, envVars, browserVars, parentVars, fetchPc, videos,
                   playing, videoLoaded, sessionVars>>

IndexOf(list, id) ==
    IF \E k \in 1..Len(list) : list[k].id = id
    THEN CHOOSE k \in 1..Len(list) :
            /\ list[k].id = id
            /\ \A j \in 1..(k - 1) : list[j].id # id
    ELSE 0

\* NextIndex without the wraparound: the last video stays the last.
NextIndexNoWrap(currentIndex, length) ==
    IF currentIndex < length THEN currentIndex + 1 ELSE length

\* (currentIndex + 1) % length, on the 1-based positions of the model.
NextIndex(currentIndex, length) == (currentIndex % length) + 1

\* (currentIndex - 1 + length) % length, on the 1-based positions of the model.
\* A video that is not in the list has index -1 in the code, 0 here; JavaScript's
\* remainder of the negative -1 % 1 addresses the first entry.
PrevIndex(currentIndex, length) ==
    IF currentIndex = 0 /\ length = 1 THEN 1
    ELSE ((currentIndex - 2 + length) % length) + 1

\* The body shared by handleNextVideo and handlePreviousVideo, which differ
\* in the index they compute.
Navigate(target, op) ==
    LET old == currentFullScreenVideo.id
        new == target.id
    IN
    /\ currentFullScreenVideo' = [id |-> new, category |-> currentCategory]
    /\ playing' = [[playing EXCEPT ![old] = FALSE] EXCEPT ![new] = TRUE]
    /\ \E ok \in PlayOutcomes, auto \in PlayOutcomes :
        LET E0 == ElPause(Elements, old)
            E1 == IF Ref(new) # "none"
                  THEN ElPlay(ElSetMuted(E0, new, FALSE), new, ok)
                  ELSE E0
            E == Commit(E1, muted, currentFullScreenVideo', auto)
        IN /\ card' = E.card
           /\ overlay' = E.overlay
    /\ lastOp' = op
    /\ UNCHANGED <<regVars, envVars, browserVars, parentVars, fetchPc, videos,
                   volume, muted, videoLoaded, currentCategory, isFullScreen,
                   isSmallScreen>>

HandleNextVideo ==
    /\ overlay.mounted
    /\ SessionActive /\ currentCategory # Null
    /\ currentCategory \in DOMAIN videos
    /\ LET currentVideos == videos[currentCategory]
           currentIndex == IndexOf(currentVideos, currentFullScreenVideo.id)
       IN Navigate(currentVideos[NextIndex(currentIndex, Len(currentVideos))],
                   "Next")

HandlePreviousVideo ==
    /\ overlay.mounted
    /\ SessionActive /\ currentCategory # Null
    /\ currentCategory \in DOMAIN videos
    /\ LET currentVideos == videos[currentCategory]
           currentIndex == IndexOf(currentVideos, currentFullScreenVideo.id)
       IN Navigate(currentVideos[PrevIndex(currentIndex, Len(currentVideos))],
                   "Previous")

\* The browser grants the pending request: the element becomes the
\* fullscreen element and fullscreenchange is queued.
BrowserEntersFullscreen ==
    /\ fsRequest # 0
    /\ fsElement' = fsRequest
    /\ fsRequest' = 0
    /\ fsEvent' = TRUE
    /\ lastOp' = "other"
    /\ UNCHANGED <<regVars, envVars, fsExitPending, parentVars, fetchPc, videos,
                   playbackVars, sessionVars, elementVars>>

\* The browser rejects the pending request (fullscreenerror): nothing listens.
BrowserRejectsFullscreen ==
    /\ fsRequest # 0
    /\ fsRequest' = 0
    /\ lastOp' = "other"
    /\ UNCHANGED <<regVars, envVars, fsElement, fsExitPending, fsEvent,
                   parentVars, fetchPc, videos, playbackVars, sessionVars,
                   elementVars>>

\* The browser leaves fullscreen: because exitFullscreen() was asked for, or
\* on its own (the Escape key).
BrowserLeavesFullscreen ==
    /\ fsElement # 0
    /\ fsElement' = 0
    /\ fsExitPending' = FALSE
    /\ fsEvent' = TRUE
    /\ lastOp' = "other"
    /\ UNCHANGED <<regVars, envVars, fsRequest, parentVars, fetchPc, videos,
                   playbackVars, sessionVars, elementVars>>

VideoInit ==
    /\ VideoConstructed
    /\ collection \in Collections
    /\ fsSupported \in BOOLEAN
    /\ playPermitted \in BOOLEAN
    /\ galleryMounted = TRUE

\* The registration dialog is not on the page.
RegIdle ==
    /\ isOpen = FALSE
    /\ form = DefaultValues
    /\ errors = NoErrors
    /\ formError = Null
    /\ isSubmitting = FALSE
    /\ subs = <<>>

\* The gallery in a browser that lets every play through.
InitVideo == VideoInit /\ playPermitted /\ RegIdle /\ lastOp = "init"

\* The fullscreen session: the fetch, the session's controls and the
\* browser's fullscreen machinery.
NextVideo ==
    \/ FetchStart
    \/ FetchSucceed
    \/ FetchFail
    \/ \E id \in VideoIds, c \in DOMAIN videos : HandleFullScreen(id, c)
    \/ HandleExitFullScreen
    \/ HandleToggleSmallScreen
    \/ HandleFullscreenChange
    \/ HandleNextVideo
    \/ HandlePreviousVideo
    \/ BrowserEntersFullscreen
    \/ BrowserRejectsFullscreen
    \/ BrowserLeavesFullscreen

SpecVideo == InitVideo /\ [][NextVideo]_vars

\* Playback: the cards' own controls, entering and leaving fullscreen, and
\* Next/Previous, in a browser that lets every play through.
NextPlayback ==
    \/ FetchStart
    \/ FetchSucceed
    \/ FetchFail
    \/ \E id \in VideoIds : HandleVideoLoaded(id)
    \/ \E id \in VideoIds : HandlePlayPause(id)
    \/ \E id \in VideoIds : HandleVideoClick(id)
    \/ \E id \in VideoIds, c \in DOMAIN videos : HandleFullScreen(id, c)
    \/ HandleExitFullScreen
    \/ HandleNextVideo
    \/ HandlePreviousVideo

SpecPlayback == InitVideo /\ [][NextPlayback]_vars

\* The volume controls, with the handlers that make the muted map and the
\* elements differ: the first click on a card, entering and leaving
\* fullscreen.
NextVolume ==
    \/ FetchStart
    \/ FetchSucceed
    \/ FetchFail
    \/ \E id \in VideoIds : HandleVideoClick(id)
    \/ \E id \in VideoIds, c \in DOMAIN videos : HandleFullScreen(id, c)
    \/ HandleExitFullScreen
    \/ \E id \in VideoIds : HandleMuteToggle(id)
    \/ \E id \in VideoIds, v \in SliderValues : HandleVolumeChange(id, v)

SpecVolume == InitVideo /\ [][NextVolume]_vars

\* The category fields of the fetch model's documents.
FetchCategories == {"", "yoga", "uncategorized", "constructor"}

\* The lists a read may return: up to MaxDocs documents with distinct ids.
FetchCollections ==
    UNION {{c \in [1..n -> [id : 1..n, category : FetchCategories]] :
                \A k \in 1..n : c[k].id = k} : n \in 0..MaxDocs}

InitFetch ==
    /\ VideoConstructed
    /\ collection \in FetchCollections
    /\ fsSupported = TRUE
    /\ playPermitted = TRUE
    /\ galleryMounted = TRUE
    /\ RegIdle
    /\ lastOp = "init"

\* The fetch on its own: the effect, the read settling, the effect running
\* again, and the gallery leaving the page.
NextFetch ==
    \/ FetchStart
    \/ FetchSucceed
    \/ FetchFail
    \/ Refetch
    \/ Unmount

SpecFetch == InitFetch /\ [][NextFetch]_vars

\* The lists of at most one document.
TeardownCollections == {c \in FetchCollections : Len(c) <= 1}

\* Both components on the page: the dialog open with a valid form typed in,
\* the gallery mounted.
InitTeardown ==
    /\ isOpen = TRUE
    /\ form = ValidForm
    /\ errors = NoErrors
    /\ formError = Null
    /\ isSubmitting = FALSE
    /\ subs = <<>>
    /\ VideoConstructed
    /\ collection \in TeardownCollections
    /\ fsSupported = TRUE
    /\ playPermitted = TRUE
    /\ galleryMounted = TRUE
    /\ lastOp = "init"

\* Work in flight while its owner goes away: the submission against the
\* close-X button, the read against the gallery leaving the page.
NextTeardown ==
    \/ HandleSubmit
    \/ Settle
    \/ CloseX
    \/ FetchStart
    \/ FetchSucceed
    \/ FetchFail
    \/ Unmount

SpecTeardown == InitTeardown /\ [][NextTeardown]_vars

\* ------------------------------------------------------ specifications

\* The lists the videos collection of the store may hold at one time or
\* another: any of the documents 1..MaxVideos, in id order, each with any
\* category. Documents are added, deleted and re-categorised outside the
\* component.
StoreCollections ==
    UNION {{c \in [1..n -> [id : VideoIds, category : DocCategories]] :
                \A k \in 1..n : \A j \in 1..n : (j < k) => (c[j].id < c[k].id)} :
           n \in 0..MaxVideos}

\* The store is written by someone else; the component is not told.
StoreChanges ==
    /\ collection' \in StoreCollections \ {collection}
    /\ lastOp' = "other"
    /\ UNCHANGED <<regVars, fsSupported, playPermitted, galleryMounted,
                   browserVars, parentVars, fetchPc, videos, playbackVars,
                   sessionVars, elementVars>>

InitRefetch ==
    /\ VideoConstructed
    /\ collection \in StoreCollections
    /\ fsSupported = TRUE
    /\ playPermitted = TRUE
    /\ galleryMounted = TRUE
    /\ RegIdle
    /\ lastOp = "init"

\* The fullscreen session over a store that changes, with an effect that
\* runs again whenever the parent hands in a new setWorkouts or setLoading.
NextRefetch ==
    \/ FetchStart
    \/ FetchSucceed
    \/ FetchFail
    \/ Refetch
    \/ StoreChanges
    \/ \E id \in VideoIds, c \in DOMAIN videos : HandleFullScreen(id, c)
    \/ HandleExitFullScreen
    \/ HandleNextVideo
    \/ HandlePreviousVideo

SpecRefetch == InitRefetch /\ [][NextRefetch]_vars

RegInit ==
    /\ isOpen = TRUE
    /\ form = DefaultValues
    /\ errors = NoErrors
    /\ formError = Null
    /\ isSubmitting = FALSE
    /\ subs = <<>>
    /\ lastOp = "init"

\* The gallery is not on the page: its state stays as constructed.
VideoIdle ==
    /\ VideoConstructed
    /\ collection = <<>>
    /\ fsSupported = TRUE
    /\ playPermitted = TRUE
    /\ galleryMounted = FALSE

\* The registration dialog under every interleaving of user actions and
\* settling external calls.
Init == RegInit /\ VideoIdle

Next ==
    \/ TypeField
    \/ HandleSubmit
    \/ Settle
    \/ CloseX
    \/ Cancel
    \/ Reopen

Spec == Init /\ [][Next]_vars

\* The validation rules on every form up to the bounds: the dialog opens with
\* an arbitrary form already typed in.
ValidationInit ==
    /\ isOpen = TRUE
    /\ form \in Forms
    /\ errors = NoErrors
    /\ formError = Null
    /\ isSubmitting = FALSE
    /\ subs = <<>>
    /\ lastOp = "init"
    /\ VideoIdle

ValidationNext == HandleSubmit

SpecValidation == ValidationInit /\ [][ValidationNext]_vars

\* ------------------------------------------------------------- properties

EmptyRequired(data) ==
    data.name = <<>> \/ data.email = <<>> \/ data.password = <<>>

\* The external calls a submission may issue, in the order onSubmit issues them.
CallOps ==
    <<"createUserWithEmailAndPassword", "addDoc:members", "addDoc:notifications">>

CallOpsOf(s) == [k \in 1..Len(s.calls) |-> s.calls[k].op]

IsPrefix(a, b) == Len(a) <= Len(b) /\ \A k \in 1..Len(a) : a[k] = b[k]

\* C1: a submission whose name, email or password is empty is blocked by the
\* local rules: the empty fields get their "required" messages, isSubmitting
\* stays clear, and no invocation of onSubmit (hence no identity creation,
\* profile write or notification write) is added for it.
C1_EmptyFieldsBlocked ==
    [][ (lastOp' = "HandleSubmit" /\ EmptyRequired(form)) =>
            /\ subs' = subs
            /\ ~isSubmitting'
            /\ form.name = <<>> => errors'.name = "Name is required"
            /\ form.email = <<>> => errors'.email = "Email is required"
            /\ form.password = <<>> => errors'.password = "Password is required"
      ]_vars

C1_Witness ==
    /\ lastOp = "HandleSubmit"
    /\ form.name = <<>> /\ form.email # <<>> /\ form.password # <<>>
    /\ Validate([form EXCEPT !.name = <<"a">>]) = NoErrors
    /\ errors.name = "Name is required"
    /\ subs = <<>>

\* C2: when identity creation is rejected with auth/email-already-in-use, the
\* form error becomes exactly "Email already in use.", and that submission
\* never issues a call besides the identity creation.
C2_DuplicateEmail ==
    [][ /\ \A i \in 1..Len(subs) :
            (/\ subs[i].pc = "auth"
             /\ subs'[i].pc = "failed"
             /\ subs'[i].error.code = "auth/email-already-in-use") =>
                /\ formError' = "Email already in use."
                /\ subs'[i].shown = "Email already in use."
        /\ \A i \in 1..Len(subs') :
            (/\ subs'[i].failedAt = "auth"
             /\ subs'[i].error.code = "auth/email-already-in-use") =>
                CallOpsOf(subs'[i]) = <<"createUserWithEmailAndPassword">>
      ]_vars

C2_Witness ==
    \E i \in 1..Len(subs) :
        /\ subs[i].pc = "failed"
        /\ subs[i].failedAt = "auth"
        /\ subs[i].error.code = "auth/email-already-in-use"
        /\ formError = "Email already in use."

\* C3: when the notification write of a submission resolves (identity
\* creation and both writes succeeded), the form is back at its default
\* values, the close callback has run (the dialog is closed), the success
\* notification has fired exactly once for that submission and never fires
\* again, and the submission has set no error message.
C3_FullSuccess ==
    [][ /\ \A i \in 1..Len(subs) :
            (subs[i].pc = "notif" /\ subs'[i].pc = "done") =>
                /\ form' = DefaultValues
                /\ errors' = NoErrors
                /\ ~isOpen'
                /\ formError' = formError
        /\ \A i \in 1..Len(subs') :
            /\ subs'[i].nSuccess = (IF subs'[i].pc = "done" THEN 1 ELSE 0)
            /\ subs'[i].pc = "done" =>
                /\ subs'[i].nReset = 1
                /\ subs'[i].nClose = 1
                /\ subs'[i].nErrorToast = 0
                /\ subs'[i].shown = Null
      ]_vars

C3_Witness ==
    \E i \in 1..Len(subs) :
        /\ subs[i].pc = "done"
        /\ Len(subs[i].calls) = 3
        /\ subs[i].nSuccess = 1
        /\ ~isOpen
        /\ form = DefaultValues

\* C4: at most one submission is in flight at any time (so no second identity
\* creation is issued before the first submission has settled).
C4_AtMostOneInFlight ==
    Cardinality({i \in 1..Len(subs) : InFlight(i)}) <= 1

AuthSucceeded(s) ==
    \/ s.pc \in {"profile", "notif", "done"}
    \/ s.pc = "failed" /\ s.failedAt \in {"profile", "notif"}

ProfileSucceeded(s) ==
    \/ s.pc \in {"notif", "done"}
    \/ s.pc = "failed" /\ s.failedAt = "notif"

\* C5: the calls of a submission are a prefix of identity creation, profile
\* write, notification write; the profile write is there only once identity
\* creation has succeeded and carries the reference it returned; the
\* notification write is there only once the profile write has succeeded.
C5_Sequenced ==
    \A i \in 1..Len(subs) :
        LET s == subs[i] IN
        /\ Len(s.calls) >= 1
        /\ IsPrefix(CallOpsOf(s), CallOps)
        /\ Len(s.calls) >= 2 =>
            /\ AuthSucceeded(s)
            /\ s.uid = NewUid(i)
            /\ s.calls[2].userId = s.uid
        /\ Len(s.calls) >= 3 => ProfileSucceeded(s)

C5_Witness ==
    \E i \in 1..Len(subs) :
        /\ Len(subs[i].calls) = 3
        /\ subs[i].calls[2].userId = NewUid(i)

\* C6: a failed step ends its submission: the step that fails shows a
\* non-empty error message, clears isSubmitting, and leaves the dialog open
\* state and the form as they were; a failed submission has issued exactly
\* the calls up to the one that failed, each once, has fired no success
\* notification, has not reset the form nor called the close callback; and
\* nothing more ever happens for it.
C6_FailureIsTerminal ==
    [][ /\ \A i \in 1..Len(subs) :
            /\ (InFlight(i) /\ subs'[i].pc = "failed") =>
                /\ formError' = subs'[i].shown
                /\ formError' \notin {Null, ""}
                /\ ~isSubmitting'
                /\ isOpen' = isOpen
                /\ form' = form
                /\ subs'[i].calls = subs[i].calls
            /\ subs[i].pc = "failed" => subs'[i] = subs[i]
        /\ \A i \in 1..Len(subs') :
            subs'[i].pc = "failed" =>
                /\ subs'[i].nSuccess = 0
                /\ subs'[i].nReset = 0
                /\ subs'[i].nClose = 0
                /\ subs'[i].nErrorToast = 1
                /\ IsPrefix(CallOpsOf(subs'[i]), CallOps)
                /\ Len(subs'[i].calls) =
                      (CASE subs'[i].failedAt = "auth" -> 1
                         [] subs'[i].failedAt = "profile" -> 2
                         [] subs'[i].failedAt = "notif" -> 3)
      ]_vars

C6_Witness ==
    \E i \in 1..Len(subs) :
        /\ subs[i].pc = "failed"
        /\ subs[i].failedAt = "profile"
        /\ formError = "Permission denied: Unable to save data."
        /\ ~isSubmitting
        /\ isOpen
        /\ form = ValidForm

\* The local@domain shape of the email rule, stated on positions: a "@" after
\* at least one character, a "." after at least one more, at least one
\* character after it, and no white space anywhere.
LocalAtDomainShape(s) ==
    /\ \A k \in 1..Len(s) : s[k] # " "
    /\ \E i \in 1..Len(s), j \in 1..Len(s) :
        /\ s[i] = "@" /\ s[j] = "."
        /\ 1 < i /\ i + 1 < j /\ j < Len(s)

\* C7 as stated: every email that lacks the shape is blocked with the
\* "Invalid email format" message.
C7_Original ==
    [][ (lastOp' = "HandleSubmit" /\ ~LocalAtDomainShape(form.email)) =>
            /\ subs' = subs
            /\ errors'.email = "Invalid email format"
      ]_vars

\* C7 as amended: every email that lacks the shape is blocked and no call is
\* issued; the message is "Invalid email format" when the email is not
\* empty, and "Email is required" when it is.
C7_InvalidEmailBlocked ==
    [][ (lastOp' = "HandleSubmit" /\ ~LocalAtDomainShape(form.email)) =>
            /\ subs' = subs
            /\ ~isSubmitting'
            /\ errors'.email = (IF form.email = <<>> THEN "Email is required"
                                ELSE "Invalid email format")
      ]_vars

C7_Witness ==
    /\ lastOp = "HandleSubmit"
    /\ form.email = <<"a", "@", "a">>
    /\ Validate([form EXCEPT !.email = ValidForm.email]) = NoErrors
    /\ errors.email = "Invalid email format"
    /\ subs = <<>>

\* C8 as stated: every password shorter than 6 is blocked with the
\* length message.
C8_Original ==
    [][ (lastOp' = "HandleSubmit" /\ Len(form.password) < 6) =>
            /\ subs' = subs
            /\ errors'.password = "Password must be at least 6 characters"
      ]_vars

\* C8 as amended: every password shorter than 6 is blocked and no call is
\* issued; the message is the length message when the password is not empty,
\* and "Password is required" when it is.
C8_ShortPasswordBlocked ==
    [][ (lastOp' = "HandleSubmit" /\ Len(form.password) < 6) =>
            /\ subs' = subs
            /\ ~isSubmitting'
            /\ errors'.password =
                  (IF form.password = <<>> THEN "Password is required"
                   ELSE "Password must be at least 6 characters")
      ]_vars

C8_Witness ==
    /\ lastOp = "HandleSubmit"
    /\ Len(form.password) = 5
    /\ Validate([form EXCEPT !.password = ValidForm.password]) = NoErrors
    /\ errors.password = "Password must be at least 6 characters"
    /\ subs = <<>>

SessionCleared ==
    /\ currentFullScreenVideo = NoVideo
    /\ currentCategory = Null
    /\ isFullScreen = FALSE
    /\ isSmallScreen = FALSE

\* C9: a fullscreenchange event handled while a session is active and the
\* browser reports no fullscreen element clears the session, and the state
\* it leaves is the one the exit control leaves: no active video, no active
\* category, isFullScreen and compact mode false, and the playing, volume,
\* muted and loaded maps and the cards' elements as they were.
C9_NativeExitLikeExitControl ==
    [][ /\ (fsEvent /\ ~fsEvent' /\ fsElement = 0 /\ SessionActive) =>
                lastOp' = "NativeExit"
        /\ lastOp' \in {"NativeExit", "ExitControl"} =>
            /\ SessionActive
            /\ SessionCleared'
            /\ playbackVars' = playbackVars
            /\ card' = card
      ]_vars

C9_Witness ==
    /\ lastOp = "NativeExit"
    /\ SessionCleared
    /\ fsElement = 0
    /\ \E id \in DOMAIN playing : playing[id] /\ ~muted[id]

\* C10: the session is non-null only while the browser is in fullscreen mode
\* (or has the request for it still pending).
C10_SessionOnlyWhileFullscreen ==
    SessionActive => (fsElement # 0 \/ fsRequest # 0)

\* C11: in a session on a category list of length n with the active video at
\* (0-based) index i, Next makes the video at index (i + 1) mod n active and
\* Previous the video at index (i - 1 + n) mod n; on a list of length 1 both
\* keep the same video, and Previous applied to the index Next produces is i.
C11_Wraparound ==
    [][ (lastOp' \in {"Next", "Previous"}) =>
            LET list == videos[currentCategory]
                n == Len(list)
                i == IndexOf(list, currentFullScreenVideo.id) - 1
                active1 == currentFullScreenVideo'.id
            IN /\ i \in 0..(n - 1)
               /\ lastOp' = "Next" => active1 = list[((i + 1) % n) + 1].id
               /\ lastOp' = "Previous" =>
                      active1 = list[((i - 1 + n) % n) + 1].id
               /\ n = 1 => active1 = currentFullScreenVideo.id
               /\ ((((i + 1) % n) - 1 + n) % n) = i
      ]_vars

\* Next from the last video of a list of two wrapped around to the first.
C11_Witness ==
    /\ lastOp = "Next"
    /\ SessionActive
    /\ Len(videos[currentCategory]) >= 2
    /\ currentFullScreenVideo.id = videos[currentCategory][1].id

\* C12: handleVolumeChange(id, v) stores v as volume[id]; with v > 0 it
\* leaves muted[id] false and the muted property of the element that id
\* addresses false; with v = 0 it leaves muted[id] as it was.
C12_VolumeUnmutes ==
    [][ \A id \in VideoIds, v \in SliderValues :
            HandleVolumeChange(id, v) =>
                /\ volume'[id] = v
                /\ v > 0 => (~muted'[id] /\ ~AddressedMuted(id)')
                /\ v = 0 => muted'[id] = muted[id]
      ]_vars

\* A positive volume arrived while the element was muted, and unmuted it.
C12_Witness ==
    /\ lastOp = "VolumeUnmute"
    /\ \E id \in DOMAIN volume :
        /\ volume[id] = 7
        /\ ~muted[id]
        /\ ~AddressedMuted(id)

\* The displayed muted indicator: muted[id] || volume[id] === 0.
MutedIndicator(id) == muted[id] \/ volume[id] = 0

\* C13: handleMuteToggle(id) on a video whose volume is 0 leaves the muted
\* indicator as it was.
C13_MuteToggleAtZero ==
    [][ \A id \in VideoIds :
            (HandleMuteToggle(id) /\ volume[id] = 0) =>
                MutedIndicator(id)' = MutedIndicator(id)
      ]_vars

\* A video at volume 0 whose mute was toggled on (the slider that set the
\* volume to 0 exists only while the video is not muted).
C13_Witness ==
    \E id \in DOMAIN volume :
        /\ volume[id] = 0
        /\ muted[id]
        /\ MutedIndicator(id)

\* The categories under which the record with this id is listed.
GroupsOf(id) ==
    {c \in DOMAIN videos : \E j \in 1..Len(videos[c]) : videos[c][j].id = id}

\* videos is a stable partition of the list by category: every record is
\* listed once, in the group of its category ("uncategorized" when it has
\* none), nothing else is listed, and each group is in the list's order.
StablePartition(list) ==
    /\ \A k \in 1..Len(list) :
        /\ GroupsOf(list[k].id) =
              {IF list[k].category = "" THEN "uncategorized"
               ELSE list[k].category}
        /\ \A c \in GroupsOf(list[k].id) :
              Cardinality({j \in 1..Len(videos[c]) : videos[c][j] = list[k]}) = 1
    /\ \A c \in DOMAIN videos :
        /\ Len(videos[c]) >= 1
        /\ \A j \in 1..Len(videos[c]) :
              \E k \in 1..Len(list) : videos[c][j] = list[k]
        /\ \A j1, j2 \in 1..Len(videos[c]) :
              j1 < j2 => IndexOf(list, videos[c][j1].id)
                             < IndexOf(list, videos[c][j2].id)

\* C14: once the read has resolved, the gallery's groups are a stable
\* partition of the fetched list.
C14_StablePartition ==
    (galleryMounted /\ fetchPc \in {"done", "threw"}) =>
        StablePartition(collection)

\* The same for the lists none of whose categories names an inherited
\* property of the accumulator.
GroupingStableWithoutInheritedKeys ==
    (galleryMounted /\ fetchPc = "done") => StablePartition(collection)

\* The read is issued, resolves, rejects (as steps of a behaviour).
ReadIssued == fetchPc # "reading" /\ fetchPc' = "reading"
ReadResolved == fetchPc = "reading" /\ fetchPc' \in {"done", "threw"}
ReadRejected == fetchPc = "reading" /\ fetchPc' = "failed"

\* C15: the parent is told loading = true when the read is issued and
\* loading = false when it settles; when the read resolves the grouped result
\* is handed to setWorkouts, once, and at no other step; when the read
\* rejects, the videos and the playback maps stay as they were.
C15_FetchReports ==
    [][ /\ ReadIssued => loading'
        /\ (ReadResolved \/ ReadRejected) => ~loading'
        /\ ReadResolved =>
            /\ Len(workouts') = Len(workouts) + 1
            /\ galleryMounted => workouts'[Len(workouts')] = videos'
        /\ ~ReadResolved => workouts' = workouts
        /\ ReadRejected =>
            /\ videos' = videos
            /\ playbackVars' = playbackVars
      ]_vars

\* The same with a grouping that throws counted as a failure of the fetch.
FetchReportsUnlessGroupingThrows ==
    [][ /\ ReadIssued => loading'
        /\ (ReadResolved \/ ReadRejected) => ~loading'
        /\ fetchPc' = "done" /\ ReadResolved =>
            /\ Len(workouts') = Len(workouts) + 1
            /\ galleryMounted => workouts'[Len(workouts')] = videos'
        /\ ~(fetchPc' = "done" /\ ReadResolved) => workouts' = workouts
        /\ (ReadRejected \/ (ReadResolved /\ fetchPc' = "threw")) =>
            /\ videos' = videos
            /\ playbackVars' = playbackVars
      ]_vars

\* C16: a Next or Previous step happens in a session only, keeps the
\* category, and leaves the incoming video playing and unmuted (muted map and
\* the element the id addresses) and, on a list of two or more, the outgoing
\* video not playing.
C16_NavigateStartsUnmuted ==
    [][ (lastOp' \in {"Next", "Previous"}) =>
            /\ SessionActive /\ SessionActive'
            /\ \A outgoing, incoming \in VideoIds :
               (/\ outgoing = currentFullScreenVideo.id
                /\ incoming = currentFullScreenVideo'.id) =>
                   /\ currentCategory' = currentCategory
                   /\ playing'[incoming]
                   /\ ~muted'[incoming]
                   /\ ~AddressedMuted(incoming)'
                   /\ Len(videos[currentCategory]) >= 2 => ~playing'[outgoing]
      ]_vars

\* What does hold of a Next or Previous step: everything above but the
\* unmuting, and the muted map is left as it was.
NavigateKeepsMutedMap ==
    [][ (lastOp' \in {"Next", "Previous"}) =>
            /\ SessionActive /\ SessionActive'
            /\ \A outgoing, incoming \in VideoIds :
               (/\ outgoing = currentFullScreenVideo.id
                /\ incoming = currentFullScreenVideo'.id) =>
                   /\ currentCategory' = currentCategory
                   /\ playing'[incoming]
                   /\ muted' = muted
                   /\ AddressedMuted(incoming)' = muted[incoming]
                   /\ Len(videos[currentCategory]) >= 2 => ~playing'[outgoing]
      ]_vars

\* C17: entering fullscreen from the card of video id in category c starts
\* from no session, records the session as {id, c} with c the category the
\* card is listed under, sets isFullScreen and clears compact mode, sets
\* playing[id] and clears muted[id], and leaves the playing and muted entries
\* of every other id, and the volume and loaded maps, as they were.
C17_EnterFrame ==
    [][ (lastOp' = "Enter") =>
            /\ ~SessionActive
            /\ SessionActive'
            /\ isFullScreen' /\ ~isSmallScreen'
            /\ \A id \in VideoIds, c \in DOMAIN videos :
                (currentFullScreenVideo' = [id |-> id, category |-> c]) =>
                    /\ currentCategory' = c
                    /\ id \in {videos[c][k].id : k \in 1..Len(videos[c])}
                    /\ playing'[id] /\ ~muted'[id]
                    /\ \A other \in DOMAIN playing \ {id} :
                        /\ playing'[other] = playing[other]
                        /\ muted'[other] = muted[other]
            /\ currentFullScreenVideo'.category \in DOMAIN videos
            /\ DOMAIN playing' = DOMAIN playing /\ DOMAIN muted' = DOMAIN muted
            /\ volume' = volume
            /\ videoLoaded' = videoLoaded
      ]_vars

\* A session was entered while another video was marked as playing.
C17_Witness ==
    /\ lastOp = "Enter"
    /\ SessionActive
    /\ playing[currentFullScreenVideo.id]
    /\ ~muted[currentFullScreenVideo.id]
    /\ \E other \in DOMAIN playing \ {currentFullScreenVideo.id} :
        playing[other]

\* The paused property of the element that videoRefs.current[id] addresses.
AddressedPaused(id) ==
    IF Ref(id) = "overlay" THEN overlay.paused ELSE card[id].paused

\* C18: in a browser that rejects no play, playing[id] is true exactly when
\* the element that id addresses is playing.
C18_PlayingMirrorsElement ==
    playPermitted =>
        \A id \in DOMAIN playing :
            Ref(id) # "none" => (playing[id] <=> ~AddressedPaused(id))

\* The same while no fullscreen session has been entered yet: the cards'
\* own controls keep the map and the elements in step.
CardsMirrorBeforeAnySession ==
    (playPermitted /\ \A id \in DOMAIN muted : muted[id]) =>
        \A id \in DOMAIN playing :
            Ref(id) # "none" => (playing[id] <=> ~AddressedPaused(id))

\* C19: nothing cancels work in flight. The gallery leaving the page leaves
\* a pending read pending; a pending read can always resolve and reject, and
\* when it settles after the gallery left, setLoading(false) is called and,
\* when the continuation completes, setWorkouts. A pending submission can
\* always resolve and reject, also while the dialog is closed, and closing
\* the dialog leaves it pending; settling closed, its success path runs
\* reset() and the close callback, and its failure path sets the error
\* message.
C19_NoCancellation ==
    /\ [](/\ fetchPc = "reading" => (ENABLED FetchSucceed /\ ENABLED FetchFail)
          /\ \A i \in 1..Len(subs) :
                InFlight(i) =>
                    /\ ENABLED (AuthResolve(i) \/ ProfileResolve(i)
                                \/ NotifResolve(i))
                    /\ ENABLED (AuthReject(i) \/ ProfileReject(i)
                                \/ NotifReject(i)))
    /\ [][ /\ (galleryMounted /\ ~galleryMounted') => fetchPc' = fetchPc
           /\ (~galleryMounted /\ (ReadResolved \/ ReadRejected)) => ~loading'
           /\ (~galleryMounted /\ fetchPc = "reading" /\ fetchPc' = "done") =>
                Len(workouts') = Len(workouts) + 1
           /\ \A i \in 1..Len(subs) :
                /\ (isOpen /\ ~isOpen' /\ InFlight(i)) =>
                      (subs'[i] = subs[i] \/ subs'[i].pc = "done")
                /\ (~isOpen /\ subs[i].pc = "notif" /\ subs'[i].pc = "done") =>
                      /\ subs'[i].nReset = subs[i].nReset + 1
                      /\ subs'[i].nClose = subs[i].nClose + 1
                      /\ form' = DefaultValues
                /\ (~isOpen /\ InFlight(i) /\ subs'[i].pc = "failed") =>
                      /\ formError' = subs'[i].shown
                      /\ formError' # Null
         ]_vars

\* The read resolved after the gallery left (the parent got the groups, the
\* gallery's own state did not change), and a submission failed after the
\* dialog was closed.
C19_Witness ==
    /\ ~galleryMounted
    /\ fetchPc = "done"
    /\ Len(workouts) = 1
    /\ workouts[1] # EmptyMap
    /\ videos = EmptyMap
    /\ ~loading
    /\ ~isOpen
    /\ \E i \in 1..Len(subs) :
        /\ subs[i].pc = "failed"
        /\ formError = subs[i].shown

\* C20: in every reachable state isFullScreen is true exactly when
\* currentFullScreenVideo is non-null, exactly when currentCategory is
\* non-null; the category recorded in currentFullScreenVideo is
\* currentCategory; compact mode is off when no session is active; and no
\* step of a card's fullscreen control starts a session while one is active.
C20_SessionVariablesAgree ==
    /\ [](/\ isFullScreen <=> SessionActive
          /\ SessionActive <=> currentCategory # Null
          /\ currentFullScreenVideo.category = currentCategory
          /\ ~SessionActive => ~isSmallScreen)
    /\ [][ /\ lastOp' = "Enter" => ~SessionActive
           /\ (~SessionActive /\ SessionActive') => lastOp' = "Enter"
         ]_vars

\* A session in compact mode that was started after an earlier one ended.
C20_Witness ==
    /\ SessionActive
    /\ isFullScreen
    /\ isSmallScreen
    /\ currentCategory = currentFullScreenVideo.category
    /\ \E other \in DOMAIN muted \ {currentFullScreenVideo.id} : ~muted[other]

\* C21: in every reachable state with an active session, videos[currentCategory]
\* exists, is non-empty and holds a video whose id is the active id, so the
\* lookup of the fullscreen render and of Next/Previous finds an entry; this
\* includes the states after a re-run of the fetch replaced the video list
\* while the session was active.
C21_SessionLookupDefined ==
    SessionActive =>
        /\ currentCategory \in DOMAIN videos
        /\ Len(videos[currentCategory]) >= 1
        /\ LookupDefined(videos, currentCategory, currentFullScreenVideo.id)

\* What does hold: while the gallery is on the page the lookup of an active
\* session finds its entry; the state that breaks it is the one whose render
\* threw.
SessionLookupDefinedWhileMounted ==
    galleryMounted => C21_SessionLookupDefined

====
